---- MODULE Spec2Model ----
(***************************************************************************)
(* Model of the MEDASSIST remote-access facade (src/src/lib/supabase.ts):  *)
(* the configuration gate, the result cache, the debounce registry and     *)
(* the facade operations, as a state machine driven by the browser event   *)
(* loop (operation calls, timer callbacks, network completions, the clock).*)
(***************************************************************************)
EXTENDS Integers, Sequences, FiniteSets, TLC

(* ------------------------------ bounds -------------------------------- *)
\* number of facade invocations explored in one run
MaxOps == 3
\* number of explicit clock advances explored in one run
MaxTicks == 2
\* number of other facade, hook and keep-alive invocations explored in one run
MaxFacadeOps == 2
\* number of auth-state-change events delivered to the listener in one run
MaxEvents == 1

(* ------------------------- program constants -------------------------- *)
\* const CACHE_DURATION = 5 * 60 * 1000
CACHE_DURATION == 5 * 60 * 1000
\* debounceQuery(key, queryFn, delay = 300)
DEBOUNCE_DELAY == 300
\* KeepAliveService.PING_INTERVAL = 4 * 60 * 1000
PING_INTERVAL == 4 * 60 * 1000

(* ----------------------------- value sets ----------------------------- *)
Ids == 1..MaxOps
\* amounts by which the clock is advanced between events (ms)
Deltas == {1, CACHE_DURATION - 1}
\* lists of doctors the backend may answer with
Payloads == {"doctorsA", "doctorsB"}
Null == "null"
EmptyList == << >>
UpstreamError == "upstream-error"
Undefined == "undefined"
OpIds == 1..MaxFacadeOps
\* the invocations of the auth-state-change listener
ListenerIds == (MaxFacadeOps + 1)..(MaxFacadeOps + MaxEvents)
AllOps == OpIds \cup ListenerIds

\* inputs of the facade operations
UserIds == {"u1"}
PatientIds == {"p1"}
SessionIds == {"chat-1"}
FileNames == {"scan.png", "xray.jpg"}
ImageTypes == {"xray"}
Analyses == {[confidence |-> 90]}
UserTypes == {"patient", "doctor"}
\* intervalId: null, and the browser with no interval set
NoInterval == 0
NoIntervals == [h \in {} |-> 0]
\* sessions the auth client may report: none, or a user with its metadata
NoSession == [id |-> Null, user_type |-> Null]
Sessions == {NoSession, [id |-> "u1", user_type |-> "doctor"],
             [id |-> "u1", user_type |-> Null]}
\* sessions whose metadata carry a user type, 'patient', 'doctor' or another
TaggedSessions == Sessions \cup {[id |-> "u1", user_type |-> "patient"],
                                 [id |-> "u1", user_type |-> "admin"]}
\* useAuth's user state when it is null (no user signed in)
NoUser == [id |-> Null, user_type |-> Null, profile |-> Null, userType |-> Null]
Credentials == {[email |-> "a@b.c", password |-> "pw"]}
SymptomAnalysisInputs == {[patient_id |-> "p1", language |-> "en"]}
ChatSessionInputs == {[user_id |-> "u1", session_type |-> "general_support"]}
ChatSessionUpdates == {[escalated_to_human |-> TRUE], [emergency_level |-> 2]}
AppointmentInputs == {[patient_id |-> "p1", doctor_id |-> "d1"]}
EmergencyAlertInputs == {[patient_id |-> "p1", severity |-> "high"]}

VARIABLES
    configured,   \* isServiceConfigured('supabase'), fixed at load
    now,          \* Date.now(), ms since page load
    ticks,        \* number of explicit clock advances so far
    invoked,      \* number of facade invocations so far
    queryCache,   \* Map: cache key -> [data, timestamp]
    storedBy,     \* history: the call whose query wrote the cache entry (0: none)
    debounceMap,  \* Map: debounce key -> timer handle
    timers,       \* setTimeout handles of debounceQuery, one per call
    queries,      \* the queryFn execution of each call
    calls,        \* each getVerifiedDoctors call: its promise and result
    netCalls,     \* number of network requests issued
    issued,       \* number of other facade, hook and keep-alive invocations so far
    ops,          \* each of these invocations and each listener invocation:
                  \* operation, arguments, progress, result
    user,         \* useAuth: useState<AuthUser | null>(null); null is NoUser
    profile,      \* useAuth: useState<any>(null)
    loading,      \* useAuth: useState(true)
    subscribed,   \* useAuth: the effect has run and the listener is registered
    intervalId,   \* KeepAliveService.intervalId: NoInterval or a timer handle
    intervalDue,  \* the intervals that are set: handle -> when it fires next
    lastCall      \* history: the last of start() and stop() that was called

vars == <<configured, now, ticks, invoked, queryCache, storedBy, debounceMap,
          timers, queries, calls, netCalls, issued, ops, user, profile, loading,
          subscribed, intervalId, intervalDue, lastCall>>
debounceVars == <<invoked, queryCache, storedBy, debounceMap, timers, queries, calls>>
hookVars == <<user, profile, loading, subscribed>>
keepAliveVars == <<intervalId, intervalDue, lastCall>>
facadeVars == <<issued, ops, hookVars, keepAliveVars>>

(* ------------------------------ Map helpers --------------------------- *)
MapHas(m, k) == k \in DOMAIN m
MapSet(m, k, v) == [x \in (DOMAIN m) \cup {k} |-> IF x = k THEN v ELSE m[x]]
MapDelete(m, k) == [x \in (DOMAIN m) \ {k} |-> m[x]]
EmptyMap == [x \in {} |-> 0]
Max(a, b) == IF a >= b THEN a ELSE b

(* --------------------------- cache helpers ---------------------------- *)
\* getCacheKey(table, query) = `${table}_${JSON.stringify(query)}`
getCacheKey(table, query) == <<table, query>>
DoctorsCacheKey == getCacheKey("doctors", "{\"verified\":true}")
DebounceKey == "verified_doctors"

\* cached && Date.now() - cached.timestamp < CACHE_DURATION
FreshInclusive(cache, key, t) ==
    MapHas(cache, key) /\ t - cache[key].timestamp <= CACHE_DURATION
Fresh(cache, key, t) ==
    MapHas(cache, key) /\ t - cache[key].timestamp < CACHE_DURATION

getCachedData(cache, key, t) ==
    IF Fresh(cache, key, t) THEN cache[key].data ELSE Null

setCachedData(cache, key, data, t) ==
    MapSet(cache, key, [data |-> data, timestamp |-> t])

\* if (cachedData) return cachedData: a hit returns without writing the cache
AfterCacheHitRefreshed(cache, key, t) == setCachedData(cache, key, cache[key].data, t)
AfterCacheHit(cache, key, t) == cache

\* catch (error) { return [] }: a failed query returns without writing the cache
AfterQueryFailureStored(cache, key, t) == setCachedData(cache, key, Null, t)
AfterQueryFailure(cache, key, t) == cache

(* ------------------------------ debounce ------------------------------ *)
NoTimer == [state |-> "none", deadline |-> 0]

\* clearTimeout(id): a pending timer is cancelled, any other handle is ignored
clearTimeout(ts, id) ==
    IF ts[id].state = "pending" THEN [ts EXCEPT ![id].state = "cancelled"] ELSE ts

\* if (debounceMap.has(key)) clearTimeout(debounceMap.get(key))
CancelPreviousSkipped(key) == timers
CancelPrevious(key) ==
    IF MapHas(debounceMap, key) THEN clearTimeout(timers, debounceMap[key])
    ELSE timers

\* the calls that reached debounceQuery so far
Debounced == {c \in Ids : timers[c].state # "none"}
LastDebounced == IF Debounced = {} THEN 0
                 ELSE CHOOSE c \in Debounced : \A d \in Debounced : d <= c

\* an invocation slot not yet used
\* request: the request in flight ("net": the operation's own, "profile": a
\* profile request); via (history): the event that ended the operation;
\* overtaken (history): a signOut of the hook ended during this profile load
NoOp == [name |-> "none", args |-> Null, phase |-> "idle", inflight |-> FALSE,
         deadline |-> 0, outer |-> 0, outcome |-> "none", value |-> Null,
         request |-> "none", via |-> "none", overtaken |-> FALSE]

NoCall == [state |-> "idle", at |-> 0, hit |-> FALSE, inWindow |-> FALSE,
           result |-> Null]

(* ------------------------------- Init --------------------------------- *)
Init ==
    /\ configured \in BOOLEAN
    /\ now = 0
    /\ ticks = 0
    /\ invoked = 0
    /\ queryCache = EmptyMap
    /\ storedBy = 0
    /\ debounceMap = EmptyMap
    /\ timers = [c \in Ids |-> NoTimer]
    /\ queries = [c \in Ids |-> "none"]
    /\ calls = [c \in Ids |-> NoCall]
    /\ netCalls = 0
    /\ issued = 0
    /\ ops = [i \in AllOps |-> NoOp]
    /\ user = NoUser
    /\ profile = Null
    /\ loading = TRUE
    /\ subscribed = FALSE
    /\ intervalId = NoInterval
    /\ intervalDue = NoIntervals
    /\ lastCall = "none"

(* ------------------------------ actions ------------------------------- *)
\* dataService.getVerifiedDoctors(), up to its first suspension
GetVerifiedDoctors ==
    /\ invoked < MaxOps
    /\ LET c == invoked + 1
           cachedData == getCachedData(queryCache, DoctorsCacheKey, now)
       IN
       /\ invoked' = c
       /\ IF ~configured THEN
              /\ calls' = [calls EXCEPT ![c] =
                    [state |-> "returned", at |-> now, hit |-> FALSE,
                     inWindow |-> FALSE, result |-> EmptyList]]
              /\ UNCHANGED <<timers, debounceMap, queryCache>>
          ELSE IF cachedData # Null THEN
              /\ calls' = [calls EXCEPT ![c] =
                    [state |-> "returned", at |-> now, hit |-> TRUE,
                     inWindow |-> FALSE, result |-> cachedData]]
              /\ queryCache' = AfterCacheHit(queryCache, DoctorsCacheKey, now)
              /\ UNCHANGED <<timers, debounceMap>>
          ELSE
              \* debounceQuery('verified_doctors', queryFn)
              /\ timers' = [CancelPrevious(DebounceKey) EXCEPT ![c] =
                    [state |-> "pending", deadline |-> now + DEBOUNCE_DELAY]]
              /\ debounceMap' = MapSet(debounceMap, DebounceKey, c)
              /\ calls' = [calls EXCEPT ![c] =
                    [state |-> "waiting", at |-> now, hit |-> FALSE,
                     inWindow |-> (LastDebounced = 0
                                   \/ timers[LastDebounced].state = "pending"),
                     result |-> Null]]
              /\ UNCHANGED queryCache
    /\ UNCHANGED <<configured, now, ticks, storedBy, queries, netCalls, facadeVars>>

\* the setTimeout callback of call c starts running: queryFn() sends the request
TimerFire(c) ==
    /\ timers[c].state = "pending"
    /\ \A d \in Ids : timers[d].state = "pending" => c <= d
    /\ timers' = [timers EXCEPT ![c].state = "fired"]
    /\ now' = Max(now, timers[c].deadline)
    /\ queries' = [queries EXCEPT ![c] = "inflight"]
    /\ netCalls' = netCalls + 1
    /\ UNCHANGED <<configured, ticks, invoked, queryCache, storedBy, debounceMap, calls,
                   facadeVars>>

\* the request of call c is answered with data: resolve(result), finally
\* debounceMap.delete(key); then getVerifiedDoctors stores and returns it
QueryOk(c, data) ==
    /\ queries[c] = "inflight"
    /\ queries' = [queries EXCEPT ![c] = "ok"]
    /\ debounceMap' = MapDelete(debounceMap, DebounceKey)
    /\ queryCache' = setCachedData(queryCache, DoctorsCacheKey, data, now)
    /\ storedBy' = c
    /\ calls' = [calls EXCEPT ![c].state = "returned", ![c].result = data]
    /\ UNCHANGED <<configured, now, ticks, invoked, timers, netCalls, facadeVars>>

\* the request of call c fails: reject(error), finally debounceMap.delete(key);
\* getVerifiedDoctors catches, logs and returns []
QueryFail(c) ==
    /\ queries[c] = "inflight"
    /\ queries' = [queries EXCEPT ![c] = "failed"]
    /\ debounceMap' = MapDelete(debounceMap, DebounceKey)
    /\ calls' = [calls EXCEPT ![c].state = "returned", ![c].result = EmptyList]
    /\ queryCache' = AfterQueryFailure(queryCache, DoctorsCacheKey, now)
    /\ UNCHANGED <<configured, now, ticks, invoked, timers, netCalls, storedBy,
                   facadeVars>>

\* wall-clock time passes
Tick(d) ==
    /\ ticks < MaxTicks
    /\ ticks' = ticks + 1
    /\ now' = now + d
    /\ UNCHANGED <<configured, netCalls, debounceVars, facadeVars>>

(* ========================= facade operations ========================== *)
\* if (!isServiceConfigured('supabase')): the configuration gate of the
\* operations that go through the supabase client, and the choice of the
\* inert stand-in client
NotConfigured == ~configured
\* the same gate in the aiService operations, which call fetch() themselves
AiGateOpen == FALSE
AiNotConfigured == ~configured

AuthUnavailable ==
    "Authentication service is not available. Please check your configuration."
SupabaseNotConfigured == "Supabase not configured"
NetworkFailure == "network-failure"

\* { ...base, ...obj }: the fields of obj override those of base
Spread(base, obj) ==
    [f \in (DOMAIN base) \cup (DOMAIN obj) |->
        IF f \in DOMAIN obj THEN obj[f] ELSE base[f]]

\* `https://example.com/mock-upload/${file.name}`
MockUploadUrl(fileName) == <<"https://example.com/mock-upload/", fileName>>
\* { id: 'mock-id', patient_id: patientId, image_url: imageUrl }
saveMedicalImageMock(a) ==
    [id |-> "mock-id", patient_id |-> a.patientId, image_url |-> a.imageUrl]
\* { id: 'mock-id', ...data }
insertMock(data) == Spread([id |-> "mock-id"], data)
\* { id: sessionId, ...updates }
updateChatSessionMock(a) == Spread([id |-> a.sessionId], a.updates)
analyzeSymptomsMock ==
    [success |-> TRUE,
     analysis |-> [condition |-> "Mock Analysis", confidence |-> 85,
                   severity |-> "medium",
                   recommendations |-> <<"Mock recommendation 1",
                                         "Mock recommendation 2">>]]
analyzeSentimentMock ==
    [success |-> TRUE, sentiment |-> "positive", confidence |-> "0.8"]
escalateEmergencyMock ==
    [success |-> TRUE, alertId |-> "mock-alert-id",
     responseProtocol |-> [responseType |-> "mock_response",
                           estimatedResponseTime |-> "5-10 minutes"]]

Returned(v) == [outcome |-> "returned", value |-> v]
Threw(e) == [outcome |-> "threw", value |-> e]

\* profile lookup with the configuration absent: throw new Error('Supabase not configured')
ProfileLookupReturnsNull == Returned(Null)
ProfileLookupOffline == Threw(SupabaseNotConfigured)

HookOps == {"useAuth.signUp", "useAuth.signIn", "useAuth.signOut"}
SessionOps == {"useAuth.mount", "useAuth.listener"}
AiOps == {"aiService.analyzeSymptoms", "aiService.analyzeSentiment",
          "aiService.escalateEmergency"}

\* the authService operation a hook operation wraps
Inner(name) ==
    CASE name = "useAuth.signUp" -> "authService.signUp"
      [] name = "useAuth.signIn" -> "authService.signIn"
      [] name = "useAuth.signOut" -> "authService.signOut"
      [] OTHER -> name

\* the timer an operation races its request against (ms; 0: none)
TimeLimitWithoutSessionTimer(name) ==
    CASE Inner(name) = "authService.signUp" -> 10000
      [] Inner(name) = "authService.signIn" -> 8000
      [] Inner(name) = "authService.signOut" -> 5000
      [] name = "authService.getCurrentUser" -> 5000
      [] name = "keepAlive.ping" -> 5000
      [] OTHER -> 0
TimeLimit(name) ==
    CASE Inner(name) = "authService.signUp" -> 10000
      [] Inner(name) = "authService.signIn" -> 8000
      [] Inner(name) = "authService.signOut" -> 5000
      [] name = "authService.getCurrentUser" -> 5000
      [] name = "useAuth.mount" -> 8000
      [] name = "keepAlive.ping" -> 5000
      [] OTHER -> 0

\* the timer a hook operation races the authService operation against
OuterLimit(name) ==
    CASE name = "useAuth.signUp" -> 15000
      [] name = "useAuth.signIn" -> 12000
      [] name = "useAuth.signOut" -> 8000
      [] OTHER -> 0

AiFailure(name) ==
    CASE name = "aiService.analyzeSymptoms" -> "AI analysis failed"
      [] name = "aiService.analyzeSentiment" -> "Sentiment analysis failed"
      [] OTHER -> "Emergency escalation failed"
TimeoutMessage(name) ==
    CASE name = "authService.signUp" -> "Sign up request timed out"
      [] name = "authService.signIn" -> "Sign in request timed out"
      [] name = "authService.signOut" -> "Sign out request timed out"
      [] name = "useAuth.mount" -> "Session timeout"
      [] name = "keepAlive.ping" -> "Ping timeout"
      [] OTHER -> "Get user request timed out"
OuterMessage(name) ==
    CASE name = "useAuth.signUp" -> "Sign up timeout - please try again"
      [] name = "useAuth.signIn" ->
            "Sign in timeout - please check your connection and try again"
      [] OTHER -> "Sign out timeout"

\* what the service may answer to the request an operation is waiting for
Responses(op) ==
    CASE op.phase = "profile" -> {"row"}
      [] op.name = "authService.getCurrentUser" -> UserIds \cup {Null}
      [] Inner(op.name) = "authService.signUp" -> {[user |-> "u1"], [user |-> Null]}
      [] Inner(op.name) = "authService.signIn" ->
            {[user |-> s] : s \in Sessions \ {NoSession}}
      [] Inner(op.name) = "authService.signOut" -> {Undefined}
      [] op.name = "useAuth.mount" -> Sessions
      [] op.name = "dataService.uploadImage" -> {"public-url"}
      [] op.name \in AiOps -> {[success |-> TRUE]}
      [] OTHER -> {"row"}

\* the operations whose catch block swallows every failure
SwallowingWithoutPing == {"authService.signOut", "useAuth.mount"}
Swallowing == {"authService.signOut", "useAuth.mount", "keepAlive.ping"}

\* the result of the awaited request when the service answers with data
OnOk(name, args, data) ==
    CASE name \in Swallowing -> Returned(Undefined)
      [] OTHER -> Returned(data)

\* ... when the service answers with an error
OnErr(name, args) ==
    CASE name = "dataService.uploadImage" -> Returned(MockUploadUrl(args.fileName))
      [] name \in Swallowing -> Returned(Undefined)
      [] name = "authService.getCurrentUser" -> Returned(Null)
      [] name \in AiOps -> Threw(AiFailure(name))
      [] OTHER -> Threw(UpstreamError)

\* ... when the request itself fails (rejected promise)
OnReject(name, args) ==
    CASE name = "dataService.uploadImage" -> Returned(MockUploadUrl(args.fileName))
      [] name \in Swallowing -> Returned(Undefined)
      [] name = "authService.getCurrentUser" -> Returned(Null)
      [] OTHER -> Threw(NetworkFailure)

\* ... when the operation's own timer wins the race
OnTimeout(name) ==
    CASE name \in Swallowing -> Returned(Undefined)
      [] name = "authService.getCurrentUser" -> Returned(Null)
      [] OTHER -> Threw(TimeoutMessage(name))

\* the operation ends without a request
Complete(name, args, res) ==
    /\ issued < MaxFacadeOps
    /\ issued' = issued + 1
    /\ ops' = [ops EXCEPT ![issued + 1] =
          [name |-> name, args |-> args, phase |-> "done", inflight |-> FALSE,
           deadline |-> 0, outer |-> 0, outcome |-> res.outcome,
           value |-> res.value, request |-> "none", via |-> "local",
           overtaken |-> FALSE]]
    /\ netCalls' = netCalls

\* the operation sends a request at time t and awaits the answer (or a timer);
\* phase is "net", or "profile" for the profile request of a session
SendAs(name, args, phase, value, t) ==
    /\ issued < MaxFacadeOps
    /\ issued' = issued + 1
    /\ ops' = [ops EXCEPT ![issued + 1] =
          [name |-> name, args |-> args, phase |-> phase, inflight |-> TRUE,
           deadline |-> IF phase = "net" /\ TimeLimit(name) > 0
                        THEN t + TimeLimit(name) ELSE 0,
           outer |-> IF OuterLimit(name) > 0 THEN t + OuterLimit(name) ELSE 0,
           outcome |-> "none", value |-> value, request |-> phase,
           via |-> "none", overtaken |-> FALSE]]
    /\ netCalls' = netCalls + 1
Send(name, args) == SendAs(name, args, "net", Null, now)

FacadeFrame == UNCHANGED <<configured, now, ticks, debounceVars, hookVars, keepAliveVars>>

(* ------------------------------ authService --------------------------- *)
AuthSignUp(cred, userType) ==
    /\ IF NotConfigured
       THEN Complete("authService.signUp", [cred |-> cred, userType |-> userType],
                     Threw(AuthUnavailable))
       ELSE Send("authService.signUp", [cred |-> cred, userType |-> userType])
    /\ FacadeFrame

AuthSignIn(cred) ==
    /\ IF NotConfigured
       THEN Complete("authService.signIn", [cred |-> cred], Threw(AuthUnavailable))
       ELSE Send("authService.signIn", [cred |-> cred])
    /\ FacadeFrame

AuthSignOut ==
    /\ IF NotConfigured
       THEN Complete("authService.signOut", Null, Returned(Undefined))
       ELSE Send("authService.signOut", Null)
    /\ FacadeFrame

GetCurrentUser ==
    /\ IF NotConfigured
       THEN Complete("authService.getCurrentUser", Null, Returned(Null))
       ELSE Send("authService.getCurrentUser", Null)
    /\ FacadeFrame

CreatePatientProfile(userId) ==
    /\ IF NotConfigured
       THEN Complete("authService.createPatientProfile", [userId |-> userId],
                     Threw(SupabaseNotConfigured))
       ELSE Send("authService.createPatientProfile", [userId |-> userId])
    /\ FacadeFrame

CreateDoctorProfile(userId) ==
    /\ IF NotConfigured
       THEN Complete("authService.createDoctorProfile", [userId |-> userId],
                     Threw(SupabaseNotConfigured))
       ELSE Send("authService.createDoctorProfile", [userId |-> userId])
    /\ FacadeFrame

(* ------------------------------ dataService --------------------------- *)
UploadImage(fileName) ==
    /\ IF NotConfigured
       THEN Complete("dataService.uploadImage", [fileName |-> fileName],
                     Returned(MockUploadUrl(fileName)))
       ELSE Send("dataService.uploadImage", [fileName |-> fileName])
    /\ FacadeFrame

SaveMedicalImage(patientId, imageUrl, imageType, aiAnalysis) ==
    LET a == [patientId |-> patientId, imageUrl |-> imageUrl,
              imageType |-> imageType, aiAnalysis |-> aiAnalysis] IN
    /\ IF NotConfigured
       THEN Complete("dataService.saveMedicalImage", a, Returned(saveMedicalImageMock(a)))
       ELSE Send("dataService.saveMedicalImage", a)
    /\ FacadeFrame

SaveSymptomAnalysis(analysisData) ==
    /\ IF NotConfigured
       THEN Complete("dataService.saveSymptomAnalysis", analysisData,
                     Returned(insertMock(analysisData)))
       ELSE Send("dataService.saveSymptomAnalysis", analysisData)
    /\ FacadeFrame

SaveChatSession(sessionData) ==
    /\ IF NotConfigured
       THEN Complete("dataService.saveChatSession", sessionData,
                     Returned(insertMock(sessionData)))
       ELSE Send("dataService.saveChatSession", sessionData)
    /\ FacadeFrame

UpdateChatSession(sessionId, updates) ==
    LET a == [sessionId |-> sessionId, updates |-> updates] IN
    /\ IF NotConfigured
       THEN Complete("dataService.updateChatSession", a, Returned(updateChatSessionMock(a)))
       ELSE Send("dataService.updateChatSession", a)
    /\ FacadeFrame

CreateAppointment(appointmentData) ==
    /\ IF NotConfigured
       THEN Complete("dataService.createAppointment", appointmentData,
                     Returned(insertMock(appointmentData)))
       ELSE Send("dataService.createAppointment", appointmentData)
    /\ FacadeFrame

GetPatientProfile(userId) ==
    /\ IF NotConfigured
       THEN Complete("dataService.getPatientProfile", [userId |-> userId],
                     ProfileLookupOffline)
       ELSE Send("dataService.getPatientProfile", [userId |-> userId])
    /\ FacadeFrame

GetDoctorProfile(userId) ==
    /\ IF NotConfigured
       THEN Complete("dataService.getDoctorProfile", [userId |-> userId],
                     ProfileLookupOffline)
       ELSE Send("dataService.getDoctorProfile", [userId |-> userId])
    /\ FacadeFrame

CreateEmergencyAlert(alertData) ==
    /\ IF NotConfigured
       THEN Complete("dataService.createEmergencyAlert", alertData,
                     Returned(insertMock(alertData)))
       ELSE Send("dataService.createEmergencyAlert", alertData)
    /\ FacadeFrame

(* ------------------------------- aiService ---------------------------- *)
AnalyzeSymptoms(patientId) ==
    /\ IF AiNotConfigured
       THEN Complete("aiService.analyzeSymptoms", [patientId |-> patientId],
                     Returned(analyzeSymptomsMock))
       ELSE Send("aiService.analyzeSymptoms", [patientId |-> patientId])
    /\ FacadeFrame

AnalyzeSentiment(patientId) ==
    /\ IF AiNotConfigured
       THEN Complete("aiService.analyzeSentiment", [patientId |-> patientId],
                     Returned(analyzeSentimentMock))
       ELSE Send("aiService.analyzeSentiment", [patientId |-> patientId])
    /\ FacadeFrame

EscalateEmergency(patientId) ==
    /\ IF AiNotConfigured
       THEN Complete("aiService.escalateEmergency", [patientId |-> patientId],
                     Returned(escalateEmergencyMock))
       ELSE Send("aiService.escalateEmergency", [patientId |-> patientId])
    /\ FacadeFrame

(* -------------------------------- useAuth ----------------------------- *)
\* authUser.user_metadata?.user_type || 'patient'
UserTypeOfMetadataOnly(authUser) == authUser.user_type
UserTypeOf(authUser) ==
    IF authUser.user_type = Null THEN "patient" ELSE authUser.user_type
\* { ...authUser, profile: userProfile, userType }
EnhancedUserWithoutProfile(authUser, userProfile) ==
    [id |-> authUser.id, user_type |-> authUser.user_type,
     profile |-> Null, userType |-> UserTypeOf(authUser)]
EnhancedUser(authUser, userProfile) ==
    [id |-> authUser.id, user_type |-> authUser.user_type,
     profile |-> userProfile, userType |-> UserTypeOf(authUser)]
\* loadUserProfile looks the profile up among patients or among doctors
ProfileLookup(authUser) ==
    IF UserTypeOf(authUser) = "patient" THEN "dataService.getPatientProfile"
    ELSE "dataService.getDoctorProfile"

\* isAuthenticated: !!user, isPatient: user?.userType === 'patient',
\* isDoctor: user?.userType === 'doctor'
isAuthenticated == user # NoUser
isPatient == user.userType = "patient"
isDoctor == user.userType = "doctor"

\* no profile has been looked up yet
NoLookup == [lookup |-> Null]

\* the effect of useAuth: getInitialSession() and onAuthStateChange(listener)
HookMount ==
    /\ ~subscribed
    /\ subscribed' = TRUE
    /\ IF NotConfigured
       THEN \* the stand-in client resolves with no session: finally setLoading(false)
            /\ Complete("useAuth.mount", NoLookup, Returned(Undefined))
            /\ loading' = FALSE
       ELSE /\ Send("useAuth.mount", NoLookup)
            /\ UNCHANGED loading
    /\ UNCHANGED <<configured, now, ticks, debounceVars, user, profile, keepAliveVars>>

\* the listener invocations not yet used, and the next one
FreeListener == {j \in ListenerIds : ops[j].name = "none"}
NextListener == CHOOSE j \in FreeListener : \A k \in FreeListener : j <= k

\* the listener called with a session: with a user it awaits
\* loadUserProfile(session.user), without one it has ended
ListenerRun(session) ==
    IF session.id # Null
    THEN [name |-> "useAuth.listener", args |-> [lookup |-> ProfileLookup(session)],
          phase |-> "profile", inflight |-> TRUE, deadline |-> 0, outer |-> 0,
          outcome |-> "none", value |-> session, request |-> "profile",
          via |-> "none", overtaken |-> FALSE]
    ELSE [name |-> "useAuth.listener", args |-> NoLookup, phase |-> "done",
          inflight |-> FALSE, deadline |-> 0, outer |-> 0, outcome |-> "returned",
          value |-> Undefined, request |-> "none", via |-> "local",
          overtaken |-> FALSE]

\* the auth client delivers an auth-state-change event to the listener
AuthStateChange(session) ==
    /\ subscribed
    /\ ~NotConfigured
    /\ FreeListener # {}
    /\ ops' = [ops EXCEPT ![NextListener] = ListenerRun(session)]
    /\ IF session.id # Null
       THEN \* loadUserProfile(session.user): look the profile up
            /\ netCalls' = netCalls + 1
            /\ UNCHANGED <<user, profile, loading>>
       ELSE /\ netCalls' = netCalls
            /\ user' = NoUser
            /\ profile' = Null
            /\ loading' = FALSE
    /\ UNCHANGED <<configured, now, ticks, debounceVars, issued, subscribed,
                   keepAliveVars>>

HookSignUp(cred, userType) ==
    /\ IF NotConfigured
       THEN /\ Complete("useAuth.signUp", [cred |-> cred, userType |-> userType],
                        Threw(AuthUnavailable))
            /\ loading' = FALSE
       ELSE /\ Send("useAuth.signUp", [cred |-> cred, userType |-> userType])
            /\ loading' = TRUE
    /\ UNCHANGED <<configured, now, ticks, debounceVars, user, profile, subscribed,
                   keepAliveVars>>

HookSignIn(cred) ==
    /\ IF NotConfigured
       THEN /\ Complete("useAuth.signIn", [cred |-> cred], Threw(AuthUnavailable))
            /\ loading' = FALSE
       ELSE /\ Send("useAuth.signIn", [cred |-> cred])
            /\ loading' = TRUE
    /\ UNCHANGED <<configured, now, ticks, debounceVars, user, profile, subscribed,
                   keepAliveVars>>

HookSignOut ==
    /\ IF NotConfigured
       THEN /\ Complete("useAuth.signOut", Null, Returned(Undefined))
            /\ user' = NoUser
            /\ profile' = Null
            /\ loading' = FALSE
       ELSE /\ Send("useAuth.signOut", Null)
            /\ loading' = TRUE
            /\ UNCHANGED <<user, profile>>
    /\ UNCHANGED <<configured, now, ticks, debounceVars, subscribed, keepAliveVars>>

(* ------------------------------- keep-alive --------------------------- *)
\* KeepAliveService.ping(), called at time t
Ping(t) ==
    IF NotConfigured
    THEN Complete("keepAlive.ping", Null, Returned(Undefined))
    ELSE SendAs("keepAlive.ping", Null, "net", Null, t)

\* setInterval(callback, PING_INTERVAL) called at time t: the intervals
\* that are set afterwards, the new one under handle h
SetInterval(table, h, t) ==
    [k \in DOMAIN table \cup {h} |-> IF k = h THEN t + PING_INTERVAL ELSE table[k]]
\* clearInterval(h)
ClearInterval(table, h) == [k \in DOMAIN table \ {h} |-> table[k]]

\* if (this.intervalId) return
AlreadyRunningIgnored == FALSE
AlreadyRunning == intervalId # NoInterval

\* KeepAliveService.start(); the handle of the new interval is the number of
\* the initial ping
KeepAliveStart ==
    /\ lastCall' = "start"
    /\ IF AlreadyRunning
       THEN UNCHANGED <<issued, ops, netCalls, intervalId, intervalDue>>
       ELSE /\ Ping(now)
            /\ intervalId' = issued + 1
            /\ intervalDue' = SetInterval(intervalDue, issued + 1, now)
    /\ UNCHANGED <<configured, now, ticks, debounceVars, hookVars>>

\* KeepAliveService.stop()
KeepAliveStop ==
    /\ lastCall' = "stop"
    /\ IF intervalId # NoInterval
       THEN /\ intervalDue' = ClearInterval(intervalDue, intervalId)
            /\ intervalId' = NoInterval
       ELSE UNCHANGED <<intervalId, intervalDue>>
    /\ UNCHANGED <<configured, now, ticks, debounceVars, issued, ops, netCalls,
                   hookVars>>

(* --------------------- answers, failures and timeouts ----------------- *)
\* the timers that have been set and have neither fired nor been cleared
NoEarlierTimer(d) ==
    /\ \A c \in Ids : timers[c].state = "pending" => d <= timers[c].deadline
    /\ \A i \in OpIds :
          /\ (ops[i].phase = "net" /\ ops[i].deadline > 0) => d <= ops[i].deadline
          /\ (ops[i].phase \in {"net", "profile"} /\ ops[i].outer > 0)
                => d <= ops[i].outer
    /\ \A h \in DOMAIN intervalDue : d <= intervalDue[h]

\* the setInterval callback of the keep-alive service, for the interval h
IntervalTick(h) ==
    /\ h \in DOMAIN intervalDue
    /\ NoEarlierTimer(intervalDue[h])
    /\ now' = Max(now, intervalDue[h])
    /\ intervalDue' = [intervalDue EXCEPT ![h] = @ + PING_INTERVAL]
    /\ Ping(Max(now, intervalDue[h]))
    /\ UNCHANGED <<configured, ticks, debounceVars, hookVars, intervalId, lastCall>>

Settle(i, res, ev) ==
    [ops EXCEPT ![i].phase = "done", ![i].inflight = FALSE,
                ![i].outcome = res.outcome, ![i].value = res.value,
                ![i].request = "none", ![i].via = ev,
                ![i].args = IF ops[i].name \in SessionOps THEN NoLookup ELSE @,
                ![i].overtaken = FALSE]
\* history: when operation op is a signOut of the hook, its end overtakes
\* the profile loads in progress
Overtake(o, op) ==
    IF op.name = "useAuth.signOut"
    THEN [k \in DOMAIN o |->
            IF o[k].name \in SessionOps /\ o[k].phase = "profile"
            THEN [o[k] EXCEPT !.overtaken = TRUE] ELSE o[k]]
    ELSE o
\* the answer of a request whose operation has already ended is dropped
Drop(i) == [ops EXCEPT ![i].inflight = FALSE, ![i].request = "none"]

\* the request awaited in phase "net" was answered with data, and the
\* operation goes on with a profile request
NeedsProfile(op, ev, data) ==
    /\ op.phase = "net"
    /\ ev = "ok"
    /\ \/ Inner(op.name) = "authService.signUp" /\ data.user # Null
       \/ op.name = "useAuth.mount" /\ data.id # Null

\* the result of operation op when its awaited request ends with ev
Result(op, ev, data) ==
    IF op.phase = "profile"
    THEN IF op.name \in SessionOps THEN Returned(Undefined) ELSE Returned(op.value)
    ELSE CASE ev = "ok" -> OnOk(Inner(op.name), op.args, data)
           [] ev = "err" -> OnErr(Inner(op.name), op.args)
           [] ev = "reject" -> OnReject(Inner(op.name), op.args)
           [] OTHER -> OnTimeout(Inner(op.name))

\* loadUserProfile: userProfile stays null when the profile lookup throws
LoadedProfileSurfaced(ev, data) == IF ev = "ok" THEN data ELSE UpstreamError
LoadedProfile(ev, data) == IF ev = "ok" THEN data ELSE Null

\* useAuth signOut: setUser(null) after the race and in the catch block
ClearedOnSuccessOnly(ev) == IF ev = "ok" THEN NoUser ELSE user
ClearedUser(ev) == NoUser

\* what the end of operation op does to the state of useAuth
HookEffect(op, ev, data) ==
    IF op.name \in SessionOps /\ op.phase = "profile"
    THEN LET userProfile == LoadedProfile(ev, data) IN
         /\ user' = EnhancedUser(op.value, userProfile)
         /\ profile' = userProfile
         /\ loading' = FALSE
    ELSE IF op.name = "useAuth.signOut"
    THEN user' = ClearedUser(ev) /\ profile' = Null /\ loading' = FALSE
    ELSE IF op.name \in HookOps \cup SessionOps
    THEN loading' = FALSE /\ UNCHANGED <<user, profile>>
    ELSE UNCHANGED <<user, profile, loading>>

\* a successful sign-in establishes the session, and the auth client reports
\* it to the listener the hook has registered
SignedIn(op, ev) ==
    /\ ev = "ok"
    /\ op.request = "net"
    /\ Inner(op.name) = "authService.signIn"
    /\ subscribed

\* the invocations after the request of operation i ended with ev
Answered(i, ev, data) ==
    IF NeedsProfile(ops[i], ev, data)
    THEN [ops EXCEPT ![i].phase = "profile", ![i].value = data,
                     ![i].deadline = 0, ![i].request = "profile",
                     ![i].args = IF ops[i].name = "useAuth.mount"
                                 THEN [lookup |-> ProfileLookup(data)] ELSE @]
    ELSE IF ops[i].phase = "done" THEN Drop(i)
    ELSE Overtake(Settle(i, Result(ops[i], ev, data), ev), ops[i])

\* the request of operation i ends: answered with data, answered with an
\* error, or failed (the network, or the abort of the client's fetch)
NetEvent(i, ev, data) ==
    /\ ops[i].inflight
    /\ IF SignedIn(ops[i], ev)
       THEN /\ FreeListener # {}
            /\ ops' = [Answered(i, ev, data) EXCEPT
                          ![NextListener] = ListenerRun(data.user)]
            /\ netCalls' = netCalls + 1
       ELSE /\ ops' = Answered(i, ev, data)
            /\ netCalls' = IF NeedsProfile(ops[i], ev, data) THEN netCalls + 1
                           ELSE netCalls
    /\ IF NeedsProfile(ops[i], ev, data) \/ ops[i].phase = "done"
       THEN UNCHANGED <<user, profile, loading>>
       ELSE HookEffect(ops[i], ev, data)
    /\ UNCHANGED <<configured, now, ticks, debounceVars, issued, subscribed,
                   keepAliveVars>>

NetOk(i, data) == NetEvent(i, "ok", data)
NetErr(i) == NetEvent(i, "err", Null)
NetReject(i) == NetEvent(i, "reject", Null)

\* the timer of operation i fires before its request is answered
OpTimeout(i) ==
    /\ ops[i].phase = "net"
    /\ ops[i].deadline > 0
    /\ NoEarlierTimer(ops[i].deadline)
    /\ now' = Max(now, ops[i].deadline)
    /\ LET res == Result(ops[i], "timeout", Null) IN
       ops' = Overtake([ops EXCEPT ![i].phase = "done", ![i].outcome = res.outcome,
                                   ![i].value = res.value, ![i].via = "timeout"],
                       ops[i])
    /\ HookEffect(ops[i], "timeout", Null)
    /\ UNCHANGED <<configured, ticks, debounceVars, issued, netCalls, subscribed,
                   keepAliveVars>>

\* the timer of hook operation i fires before authService has returned
OuterTimeout(i) ==
    /\ ops[i].phase \in {"net", "profile"}
    /\ ops[i].outer > 0
    /\ NoEarlierTimer(ops[i].outer)
    /\ now' = Max(now, ops[i].outer)
    /\ ops' = Overtake([ops EXCEPT ![i].phase = "done", ![i].outcome = "threw",
                                   ![i].value = OuterMessage(ops[i].name),
                                   ![i].via = "outer"],
                       ops[i])
    /\ HookEffect([ops[i] EXCEPT !.phase = "net"], "timeout", Null)
    /\ UNCHANGED <<configured, ticks, debounceVars, issued, netCalls, subscribed,
                   keepAliveVars>>

Next ==
    \/ GetVerifiedDoctors
    \/ \E c \in Ids : TimerFire(c)
    \/ \E c \in Ids, data \in Payloads : QueryOk(c, data)
    \/ \E c \in Ids : QueryFail(c)
    \/ \E d \in Deltas : Tick(d)

Spec == Init /\ [][Next]_vars

\* the entries of the facade operations
FacadeCall ==
    \/ \E cred \in Credentials, t \in UserTypes : AuthSignUp(cred, t)
    \/ \E cred \in Credentials : AuthSignIn(cred)
    \/ AuthSignOut
    \/ GetCurrentUser
    \/ \E u \in UserIds : CreatePatientProfile(u)
    \/ \E u \in UserIds : CreateDoctorProfile(u)
    \/ \E f \in FileNames : UploadImage(f)
    \/ \E pt \in PatientIds, f \in FileNames, t \in ImageTypes, a \in Analyses :
          SaveMedicalImage(pt, MockUploadUrl(f), t, a)
    \/ \E d \in SymptomAnalysisInputs : SaveSymptomAnalysis(d)
    \/ \E d \in ChatSessionInputs : SaveChatSession(d)
    \/ \E sid \in SessionIds, u \in ChatSessionUpdates : UpdateChatSession(sid, u)
    \/ \E d \in AppointmentInputs : CreateAppointment(d)
    \/ \E u \in UserIds : GetPatientProfile(u)
    \/ \E u \in UserIds : GetDoctorProfile(u)
    \/ \E d \in EmergencyAlertInputs : CreateEmergencyAlert(d)
    \/ \E pt \in PatientIds : AnalyzeSymptoms(pt)
    \/ \E pt \in PatientIds : AnalyzeSentiment(pt)
    \/ \E pt \in PatientIds : EscalateEmergency(pt)

\* the entries of the hook and of the keep-alive service
HookCall ==
    \/ HookMount
    \/ \E cred \in Credentials, t \in UserTypes : HookSignUp(cred, t)
    \/ \E cred \in Credentials : HookSignIn(cred)
    \/ HookSignOut

KeepAliveCall ==
    \/ KeepAliveStart
    \/ KeepAliveStop
    \/ \E h \in OpIds : IntervalTick(h)

\* the events that continue an operation awaiting the network or a timer
FacadeContinue ==
    \/ \E i \in AllOps : \E data \in Responses(ops[i]) : NetOk(i, data)
    \/ \E i \in AllOps : NetErr(i)
    \/ \E i \in AllOps : NetReject(i)
    \/ \E i \in OpIds : OpTimeout(i)
    \/ \E i \in OpIds : OuterTimeout(i)
    \/ \E session \in Sessions : AuthStateChange(session)

DebounceContinue ==
    \/ \E c \in Ids : TimerFire(c)
    \/ \E c \in Ids, data \in Payloads : QueryOk(c, data)
    \/ \E c \in Ids : QueryFail(c)

\* the facade, the hook and the keep-alive service with the service configured
InitConfigured == Init /\ configured
NextFacade == FacadeCall \/ HookCall \/ KeepAliveCall \/ FacadeContinue
SpecFacade == InitConfigured /\ [][NextFacade]_vars

\* the authentication operations and the hook with the service configured
AuthCall ==
    \/ \E cred \in Credentials, t \in UserTypes : AuthSignUp(cred, t)
    \/ \E cred \in Credentials : AuthSignIn(cred)
    \/ AuthSignOut
    \/ GetCurrentUser
NextAuth == AuthCall \/ HookCall \/ FacadeContinue
SpecAuth == InitConfigured /\ [][NextAuth]_vars

\* the session state of the hook with the service configured: the initial
\* session fetch, the auth-state-change listener and signOut
SessionContinue ==
    \/ \E i \in AllOps : \E data \in Responses(ops[i]) : NetOk(i, data)
    \/ \E i \in AllOps : NetErr(i)
    \/ \E i \in AllOps : NetReject(i)
    \/ \E i \in OpIds : OpTimeout(i)
    \/ \E session \in Sessions : AuthStateChange(session)
NextSession == HookMount \/ HookSignOut \/ SessionContinue
SpecSession == InitConfigured /\ [][NextSession]_vars

\* the timers that have been set fire, and the client's fetch ends the request
\* of a profile lookup (it aborts the request after 10 s); the session fetch
\* may stay unanswered and no event need be delivered
TimerFires == \E i \in OpIds : OpTimeout(i)
ProfileSettles ==
    \E i \in AllOps :
        /\ ops[i].phase = "profile"
        /\ \/ NetOk(i, "row")
           \/ NetErr(i)
           \/ NetReject(i)

\* the keep-alive service: start(), stop(), the interval and the pings
PingContinue ==
    \/ \E i \in OpIds : NetOk(i, "row")
    \/ \E i \in OpIds : NetErr(i)
    \/ \E i \in OpIds : NetReject(i)
    \/ \E i \in OpIds : OpTimeout(i)
NextKeepAlive == KeepAliveCall \/ PingContinue
SpecKeepAlive == Init /\ [][NextKeepAlive]_vars

\* the mounted hook with the service configured, for sessions of every user
\* type: the initial session fetch, the listener and their profile loads
MountResponses(op) ==
    IF op.name = "useAuth.mount" /\ op.phase = "net" THEN TaggedSessions
    ELSE Responses(op)
MountContinue ==
    \/ \E i \in AllOps : \E data \in MountResponses(ops[i]) : NetOk(i, data)
    \/ \E i \in AllOps : NetErr(i)
    \/ \E i \in AllOps : NetReject(i)
    \/ \E i \in OpIds : OpTimeout(i)
    \/ \E session \in TaggedSessions : AuthStateChange(session)
NextMount == HookMount \/ MountContinue
SpecMount == InitConfigured /\ [][NextMount]_vars
SpecMountFair == SpecMount /\ WF_vars(TimerFires) /\ WF_vars(ProfileSettles)

\* the operations of authService, dataService and aiService with the service
\* configured, and the answers, failures and timers that end them
ServiceContinue ==
    \/ \E i \in OpIds : \E data \in Responses(ops[i]) : NetOk(i, data)
    \/ \E i \in OpIds : NetErr(i)
    \/ \E i \in OpIds : NetReject(i)
    \/ \E i \in OpIds : OpTimeout(i)
NextService == FacadeCall \/ ServiceContinue
SpecService == InitConfigured /\ [][NextService]_vars

\* every operation with the configuration absent; the clock advances with
\* the keep-alive interval
InitOffline == Init /\ ~configured
NextOffline ==
    \/ FacadeCall
    \/ HookCall
    \/ KeepAliveCall
    \/ GetVerifiedDoctors
SpecOffline == InitOffline /\ [][NextOffline]_vars

(* ===================== debounce and cache properties =================== *)
Pending == {c \in Ids : timers[c].state = "pending"}
InFlight == {c \in Ids : queries[c] = "inflight"}
Executed == {c \in Ids : queries[c] # "none"}
Called == {c \in Ids : calls[c].state # "idle"}
\* every debounceQuery call so far was issued before the previous call's timer fired
BurstOnly == \A c \in Debounced : calls[c].inWindow
Quiescent == Pending = {} /\ InFlight = {}

\* C1: when N calls reach debounceQuery, each before the previous call's timer
\* has fired, every caller's promise settles with the result of the single
\* query execution: once no timer is pending and no query is in flight, no
\* caller of the burst is left waiting and all hold the last call's result.
C1_AllCallersSettle ==
    (configured /\ BurstOnly /\ Quiescent) =>
        \A c \in Debounced :
            /\ calls[c].state = "returned"
            /\ calls[c].result = calls[LastDebounced].result

\* C2: for N debounceQuery calls, each issued before the previous call's
\* timer has fired, at most one queryFn is executed, it is the one of the
\* last call, it has run exactly once when the last timer has fired, and the
\* N-1 earlier timers are cancelled and never run their queryFn.
C2_OneQueryPerBurst ==
    (configured /\ BurstOnly) =>
        /\ \A c \in Debounced \ {LastDebounced} :
              timers[c].state = "cancelled" /\ queries[c] = "none"
        /\ Executed \subseteq {LastDebounced}
        /\ netCalls = Cardinality(Executed)
        /\ (LastDebounced # 0 /\ timers[LastDebounced].state = "fired")
              => (Executed = {LastDebounced} /\ netCalls = 1)

\* C2 witness: a burst of three calls whose single query has completed
C2_Witness ==
    /\ configured /\ BurstOnly
    /\ Cardinality(Debounced) = 3
    /\ queries[LastDebounced] = "ok"
    /\ netCalls = 1

\* C3: for each debounce key at most one network query is in flight.
C3_OneInFlightPerKey == Cardinality(InFlight) <= 1

\* C4: no stale completion overwrites the cache: queries are started in call
\* order, and the cache entry never passes from the payload of a later-started
\* query to the payload of an earlier-started one.
C4_NoStaleOverwrite == [][storedBy' >= storedBy]_vars

\* C5: for each debounce key at most one timer is pending.
C5_OnePendingTimerPerKey == Cardinality(Pending) <= 1

\* C6: a second getVerifiedDoctors call made within 5 minutes of the first
\* adds no network invocation to the one of the first call, and returns the
\* payload the first call returned.
C6_SecondCallServedFromCache ==
    \A c \in Called, d \in Called :
        (/\ configured
         /\ c < d
         /\ \A e \in Called : c <= e
         /\ \A e \in Called : e > c => d <= e
         /\ calls[d].at - calls[c].at < 300000) =>
            /\ ~(queries[c] # "none" /\ queries[d] # "none")
            /\ (calls[c].state = "returned" /\ calls[d].state = "returned")
                  => calls[d].result = calls[c].result

\* C7: a cache entry is served exactly when now - timestamp < 300000 ms; a call
\* that is not served schedules one query, a lone such call costs exactly one
\* network invocation, every network invocation is the single execution of one
\* call's queryFn, and a successful query replaces the entry by its payload
\* stamped with the time of storing.
C7_CacheWindow ==
    [][configured =>
        /\ \A c \in Ids :
              (calls[c].state = "idle" /\ calls'[c].state # "idle") =>
                 /\ calls'[c].hit <=>
                       (/\ DoctorsCacheKey \in DOMAIN queryCache
                        /\ now - queryCache[DoctorsCacheKey].timestamp < 300000)
                 /\ calls'[c].hit =>
                       /\ calls'[c].state = "returned"
                       /\ calls'[c].result = queryCache[DoctorsCacheKey].data
                       /\ timers'[c].state = "none"
                 /\ ~calls'[c].hit =>
                       /\ calls'[c].state = "waiting"
                       /\ timers'[c].state = "pending"
                 /\ netCalls' = netCalls
                 /\ queryCache' = queryCache
        /\ \A c \in Ids :
              (queries[c] = "inflight" /\ queries'[c] = "ok") =>
                 /\ calls'[c].result \in Payloads
                 /\ queryCache'[DoctorsCacheKey] =
                       [data |-> calls'[c].result, timestamp |-> now']
        /\ netCalls' # netCalls =>
              /\ netCalls' = netCalls + 1
              /\ \E c \in Ids : queries[c] = "none" /\ queries'[c] = "inflight"
        /\ \A c \in Ids :
              (Debounced = {c} /\ calls[c].state = "returned") => netCalls = 1
    ]_vars

\* C7 witness: with one stored entry, a call at age 299999 was served from it
\* and a call at age 300000 was not and waits for its own query
C7_Witness ==
    /\ configured
    /\ DoctorsCacheKey \in DOMAIN queryCache
    /\ \E c \in Ids, d \in Ids :
          /\ calls[c].hit
          /\ calls[c].at - queryCache[DoctorsCacheKey].timestamp = 299999
          /\ calls[d].state = "waiting"
          /\ calls[d].at - queryCache[DoctorsCacheKey].timestamp = 300000
          /\ timers[d].state = "pending"

\* C21: a cache hit of getVerifiedDoctors leaves the result cache and the
\* debounce registry unchanged and starts no timer and no query; the entry's
\* timestamp stays the time of storing, so that an entry is served only
\* while less than 300000 ms have passed since it was stored.
C21_ReadsDoNotRefresh ==
    [][\A c \in Ids :
          (calls[c].state = "idle" /\ calls'[c].hit) =>
              /\ queryCache' = queryCache
              /\ debounceMap' = debounceMap
              /\ timers' = timers
              /\ netCalls' = netCalls
              /\ storedBy # 0
              /\ queries[storedBy] = "ok"
              /\ now - queryCache[DoctorsCacheKey].timestamp < 300000
              /\ calls'[c].result = calls[storedBy].result
      ]_vars

\* C21 witness: the entry stored by the first call was read at age 299999 and
\* refused at age 300000, still carrying the time of storing
C21_Witness ==
    /\ configured
    /\ storedBy = 1
    /\ DoctorsCacheKey \in DOMAIN queryCache
    /\ calls[2].hit
    /\ calls[2].at = queryCache[DoctorsCacheKey].timestamp + 299999
    /\ calls[3].state = "waiting"
    /\ calls[3].at = queryCache[DoctorsCacheKey].timestamp + 300000
    /\ queryCache[DoctorsCacheKey].timestamp = timers[1].deadline

\* C22: when the debounced query of getVerifiedDoctors fails, the call
\* returns the empty sequence and the result cache is left as it was; a call
\* made while the cache holds no fresh entry is not served from the cache and
\* schedules a query of its own.
C22_FailureNotCached ==
    [][/\ \A c \in Ids :
             (queries[c] = "inflight" /\ queries'[c] = "failed") =>
                 /\ calls'[c].state = "returned"
                 /\ calls'[c].result = << >>
                 /\ queryCache' = queryCache
                 /\ storedBy' = storedBy
       /\ \A c \in Ids :
             (/\ configured
              /\ calls[c].state = "idle" /\ calls'[c].state # "idle"
              /\ \A d \in Ids : queries[d] # "ok") =>
                 /\ ~calls'[c].hit
                 /\ calls'[c].state = "waiting"
                 /\ timers'[c].state = "pending"
      ]_vars

\* C22 witness: the first call's query failed, nothing is cached, and the
\* next call has run a query of its own
C22_Witness ==
    /\ configured
    /\ queries[1] = "failed"
    /\ calls[1].state = "returned"
    /\ calls[1].result = << >>
    /\ queryCache = EmptyMap
    /\ queries[2] = "inflight"

\* C20: whenever a timer for the key is pending, the debounce registry's
\* entry for the key is that timer's handle; the completion of an earlier
\* query never removes the entry of a newer pending timer.
C20_RegistryTracksPendingTimer ==
    \A c \in Pending :
        /\ DebounceKey \in DOMAIN debounceMap
        /\ debounceMap[DebounceKey] = c

(* ===================== configuration-gate properties ================== *)
Done == {i \in OpIds : ops[i].phase = "done"}
WriteOps == {"dataService.saveMedicalImage", "dataService.saveSymptomAnalysis",
             "dataService.saveChatSession", "dataService.updateChatSession",
             "dataService.createAppointment", "dataService.createEmergencyAlert"}
ProfileLookups == {"dataService.getPatientProfile", "dataService.getDoctorProfile"}

\* C8: with the configuration absent no operation attempts a network call:
\* the number of requests issued is zero, nothing awaits the network or a
\* timer and no answer, failure or timer event can occur; every operation has
\* ended with a result that depends on its inputs alone (equal inputs, equal
\* results), uploads with the placeholder URL embedding the file name.
C8_NoNetworkOffline ==
    ~configured =>
        /\ netCalls = 0
        /\ \A i \in OpIds : ~ops[i].inflight /\ ops[i].phase \in {"idle", "done"}
        /\ \A c \in Ids : timers[c].state = "none" /\ queries[c] = "none"
        /\ \A c \in Called : calls[c].state = "returned" /\ calls[c].result = << >>
        /\ ~ENABLED (FacadeContinue \/ DebounceContinue)
        /\ \A i \in Done, j \in Done :
              (ops[i].name = ops[j].name /\ ops[i].args = ops[j].args) =>
                  /\ ops[i].outcome = ops[j].outcome
                  /\ ops[i].value = ops[j].value
        /\ \A i \in Done :
              ops[i].name = "dataService.uploadImage" =>
                  /\ ops[i].outcome = "returned"
                  /\ ops[i].value =
                        <<"https://example.com/mock-upload/", ops[i].args.fileName>>

\* C8 witness: offline, a keep-alive ping, an AI analysis and a doctors
\* listing have all ended
C8_Witness ==
    /\ ~configured
    /\ Called # {}
    /\ \E i \in Done, j \in Done :
          /\ ops[i].name = "keepAlive.ping"
          /\ ops[j].name = "aiService.analyzeSymptoms"
          /\ ops[j].outcome = "returned"

\* C9: with the configuration absent, getVerifiedDoctors returns an empty
\* sequence and getCurrentUser returns null, without error and without a
\* network call; getPatientProfile and getDoctorProfile raise the
\* configuration error.
C9_ReadsOffline ==
    ~configured =>
        /\ netCalls = 0
        /\ \A c \in Called : calls[c].state = "returned" /\ calls[c].result = << >>
        /\ \A i \in Done :
              /\ ops[i].name = "authService.getCurrentUser" =>
                    ops[i].outcome = "returned" /\ ops[i].value = "null"
              /\ ops[i].name \in ProfileLookups =>
                    /\ ops[i].outcome = "threw"
                    /\ ops[i].value = "Supabase not configured"

\* C9 witness: offline, a doctors listing, a current-user fetch and a profile
\* lookup have ended
C9_Witness ==
    /\ ~configured
    /\ Called # {}
    /\ \E i \in Done, j \in Done :
          /\ ops[i].name = "authService.getCurrentUser"
          /\ ops[j].name \in ProfileLookups

\* the row a write operation is asked to store
WritePayload(op) ==
    IF op.name = "dataService.saveMedicalImage"
    THEN [patient_id |-> op.args.patientId, image_url |-> op.args.imageUrl,
          image_type |-> op.args.imageType, ai_analysis |-> op.args.aiAnalysis]
    ELSE IF op.name = "dataService.updateChatSession" THEN op.args.updates
    ELSE op.args

\* C10: with the configuration absent, every write operation returns a
\* placeholder record that carries the whole input payload and the sentinel
\* identifier, without contacting the network.
C10_WritePlaceholders ==
    ~configured =>
        \A i \in Done :
            ops[i].name \in WriteOps =>
                /\ netCalls = 0
                /\ ops[i].outcome = "returned"
                /\ ops[i].value.id = "mock-id"
                /\ \A f \in DOMAIN WritePayload(ops[i]) :
                      /\ f \in DOMAIN ops[i].value
                      /\ ops[i].value[f] = WritePayload(ops[i])[f]

\* C11: with the configuration absent, the only operations that raise an
\* error to their caller are the two profile lookups; every other operation
\* of authService, dataService and aiService returns normally.
C11_OnlyProfileLookupsThrow ==
    ~configured =>
        \A i \in Done :
            ops[i].name \notin HookOps \cup SessionOps \cup {"keepAlive.ping"} =>
                (ops[i].outcome = "threw" <=> ops[i].name \in ProfileLookups)

(* ========================== timeout properties ======================== *)
\* the operations ended by a timer: their own, or the hook's
TimerWon == {i \in OpIds : ops[i].via \in {"timeout", "outer"}}
Abandoned == {i \in TimerWon : ops[i].inflight}

\* C12: an operation raced against a timer whose request has not been
\* answered when the timer fires ends by raising a timeout error with the
\* message of that operation, for the initial session fetch, signUp, signIn,
\* signOut and getCurrentUser, in authService and in the hook.
C12_TimeoutRaised ==
    \A i \in TimerWon :
        /\ ops[i].outcome = "threw"
        /\ ops[i].value \in
              {"Session timeout", "Sign up request timed out",
               "Sign up timeout - please try again", "Sign in request timed out",
               "Sign in timeout - please check your connection and try again",
               "Sign out request timed out", "Sign out timeout",
               "Get user request timed out"}

\* C13: once a timer has won the race, the later answer to the abandoned
\* request is not observable: the step in which it arrives changes neither
\* the state of the hook (user, profile, loading) nor the result cache nor the
\* debounce registry, and it does not invoke the auth-state-change listener.
C13_LateSettlementUnobservable ==
    [][\A i \in Abandoned :
          ~ops'[i].inflight =>
              /\ UNCHANGED <<user, profile, loading, queryCache, debounceMap>>
              /\ \A j \in ListenerIds : ops'[j] = ops[j]
      ]_vars

\* C14: a call of the hook's signIn that ends because a timer fired while
\* the remote sign-in request was still unanswered ends by raising the
\* timeout error of the hook's 12 s timer, 'Sign in timeout - please check
\* your connection and try again'.
C14_SignInTimeout ==
    \A i \in Abandoned :
        ops[i].name = "useAuth.signIn" =>
            /\ ops[i].outcome = "threw"
            /\ ops[i].value =
                  "Sign in timeout - please check your connection and try again"

(* ========================== session properties ======================== *)
\* the remote sign-out of a hook signOut failed: error result, rejected
\* request, or no answer before the timer
RemoteSignOutFailed ==
    {i \in OpIds : /\ ops[i].name = "useAuth.signOut"
                   /\ ops[i].via \in {"err", "reject", "timeout", "outer"}}

\* C15: every call of the hook's signOut ends with user and profile set to
\* null, whether the remote sign-out succeeds, reports an error, rejects or
\* is still unanswered when the timer fires.
C15_SignOutClearsLocalState ==
    [][\A i \in OpIds :
          (/\ ops'[i].name = "useAuth.signOut"
           /\ ops[i].phase # "done"
           /\ ops'[i].phase = "done") =>
              /\ user' = NoUser
              /\ profile' = Null
      ]_vars

\* C15 witness: a listener invocation had loaded a user, and a signOut whose
\* remote call was still unanswered at the timer has left no user
C15_Witness ==
    /\ user = NoUser
    /\ profile = Null
    /\ \E j \in ListenerIds : ops[j].phase = "done" /\ ops[j].via = "ok"
    /\ \E i \in RemoteSignOutFailed : ops[i].phase = "done" /\ ops[i].via = "timeout"

\* C16: when the remote sign-out fails (error result, rejection or timeout),
\* the hook's signOut clears user and profile and then reports the error: the
\* call ends by throwing.
C16_SignOutReportsFailure ==
    \A i \in RemoteSignOutFailed :
        ops[i].phase = "done" => ops[i].outcome = "threw"

\* C17: when a session with a user is available (initial session fetch or
\* auth-state-change event) and the profile lookup fails, the failure is not
\* raised: the invocation returns, user is that session's user with a null
\* profile, profile is null and loading is false.
C17_ProfileFailureSwallowed ==
    [][\A i \in AllOps :
          (/\ ops[i].name \in SessionOps
           /\ ops[i].phase = "profile"
           /\ ops'[i].phase = "done"
           /\ ops'[i].via \in {"err", "reject"}) =>
              /\ ops'[i].outcome = "returned"
              /\ user'.id = ops[i].value.id
              /\ user'.id # "null"
              /\ user'.profile = "null"
              /\ profile' = "null"
              /\ loading' = FALSE
      ]_vars

\* C17 witness: after a failed profile lookup of a session's user, the hook
\* holds that user without a profile and is no longer loading
C17_Witness ==
    /\ user.id = "u1"
    /\ user.profile = Null
    /\ profile = Null
    /\ ~loading
    /\ \E i \in AllOps :
          /\ ops[i].name \in SessionOps
          /\ ops[i].phase = "done"
          /\ ops[i].via \in {"err", "reject"}

\* C23: after the hook's signOut has cleared the local state, a profile load
\* that was in progress when it ended (started by the initial session fetch
\* or by an earlier auth-state-change event) and completes while user is
\* still null does not set user or profile to a non-null value.
C23_NoStaleProfileLoad ==
    [][\A i \in AllOps :
          (/\ ops[i].overtaken
           /\ ops[i].phase = "profile"
           /\ ops'[i].phase = "done"
           /\ user = NoUser) =>
              /\ user' = NoUser
              /\ profile' = "null"
      ]_vars

\* the session fetch of operation i is ended by its 8 s timer
SessionTimeout(i) ==
    /\ ops[i].name = "useAuth.mount"
    /\ ops[i].phase = "net"
    /\ ops'[i].phase = "done"
    /\ ops'[i].via = "timeout"

ProfileLoads == {i \in AllOps : ops[i].name \in SessionOps /\ ops[i].phase = "profile"}

\* C25: profile is non-null only if user is non-null, and a non-null user
\* carries the profile state as user.profile; an auth-state-change event
\* without a session sets user and profile to null.
C25_UserProfileConsistent ==
    /\ [](/\ profile # "null" => user.id # "null"
          /\ user.id # "null" => user.profile = profile)
    /\ [][\A j \in ListenerIds :
             (ops[j].name = "none" /\ ops'[j].phase = "done") =>
                 /\ user' = NoUser
                 /\ profile' = "null"
         ]_vars

\* C25 witness: an event without a session has been delivered, and the
\* profile load of the initial session has set a user that carries the
\* profile
C25_Witness ==
    /\ user.id = "u1"
    /\ profile = "row"
    /\ user.profile = "row"
    /\ \E i \in OpIds : /\ ops[i].name = "useAuth.mount"
                         /\ ops[i].phase = "done"
                         /\ ops[i].via = "ok"
    /\ \E j \in ListenerIds : ops[j].phase = "done" /\ ops[j].via = "local"

\* C28: the user-type tag of a session is the metadata's user_type, and
\* 'patient' when that is absent; the profile is looked up among patients
\* exactly when the tag is 'patient' and among doctors otherwise; the user
\* carries the tag as userType, and isPatient and isDoctor are never both true.
C28_UserTypeTag ==
    /\ \A i \in ProfileLoads :
          LET tag == IF ops[i].value.user_type = "null" THEN "patient"
                     ELSE ops[i].value.user_type
          IN /\ tag = "patient" => ops[i].args.lookup = "dataService.getPatientProfile"
             /\ tag # "patient" => ops[i].args.lookup = "dataService.getDoctorProfile"
    /\ user.id # "null" =>
          user.userType = IF user.user_type = "null" THEN "patient" ELSE user.user_type
    /\ ~(isPatient /\ isDoctor)

\* C28 witness: a session without a user type gave a patient, whose profile
\* was looked up among patients, while a session tagged 'admin' is being
\* looked up among doctors
C28_Witness ==
    /\ user.id = "u1"
    /\ user.user_type = Null
    /\ user.userType = "patient"
    /\ isPatient
    /\ \E i \in ProfileLoads :
          /\ ops[i].value.user_type = "admin"
          /\ ops[i].args.lookup = "dataService.getDoctorProfile"

(* ============================= keep-alive ============================== *)
\* the intervals that are set
ActiveIntervals == DOMAIN intervalDue
\* the pings that have been initiated and have not ended
OutstandingPings == {i \in OpIds : ops[i].name = "keepAlive.ping" /\ ops[i].phase = "net"}
\* a ping is initiated in this step
PingInitiated == \E i \in OpIds : ops[i].name = "none" /\ ops'[i].name = "keepAlive.ping"

\* C26: after any sequence of start() and stop() at most one interval is
\* set, and one is set exactly when the last call was start(); start() while
\* running sets no interval and initiates no ping; after stop() no ping is
\* initiated until start() is called again.
C26_AtMostOneInterval ==
    /\ [](/\ Cardinality(ActiveIntervals) <= 1
          /\ ActiveIntervals # {} <=> lastCall = "start"
          /\ intervalId # 0 <=> ActiveIntervals = {intervalId})
    /\ [][/\ (KeepAliveStart /\ ActiveIntervals # {}) =>
                UNCHANGED <<issued, ops, netCalls, intervalId, intervalDue>>
          /\ PingInitiated => lastCall' = "start"
          /\ (lastCall = "stop" /\ lastCall' = "stop") =>
                (~PingInitiated /\ ActiveIntervals' = {})
         ]_vars

\* C26 witness: after start(), stop() and start() one interval is set, the
\* one of the second start(), and each start() has initiated one ping
C26_Witness ==
    /\ lastCall = "start"
    /\ ActiveIntervals = {2}
    /\ intervalId = 2
    /\ ops[1].name = "keepAlive.ping"
    /\ ops[2].name = "keepAlive.ping"

\* a ping of operation i ends in this step
PingEnds(i) ==
    /\ ops[i].name = "keepAlive.ping"
    /\ ops[i].phase = "net"
    /\ ops'[i].phase = "done"
\* the interval h fires in this step
Fires(h) ==
    /\ h \in ActiveIntervals
    /\ h \in DOMAIN intervalDue'
    /\ intervalDue'[h] # intervalDue[h]

\* what C27 says of a ping that fails or times out: it returns to its caller
\* and leaves the interval alone, every tick of the interval initiates a
\* ping, and a ping ends within 5 s of its start
PingKeepsSchedule ==
    /\ [](\A i \in OutstandingPings : ops[i].deadline > 0 /\ now <= ops[i].deadline)
    /\ [][/\ \A i \in OpIds :
                PingEnds(i) => /\ ops'[i].outcome = "returned"
                               /\ UNCHANGED <<intervalId, intervalDue>>
          /\ \A h \in OpIds :
                Fires(h) => /\ intervalDue'[h] = intervalDue[h] + 240000
                            /\ PingInitiated
         ]_vars

\* C27 as stated: ... and at most one ping is outstanding between a start()
\* and the next stop().
C27_OnePingOutstanding ==
    /\ PingKeepsSchedule
    /\ [](intervalId # 0 => Cardinality(OutstandingPings) <= 1)

\* C27, amended: ... and at most one of the pings initiated since the last
\* start() is outstanding (a ping initiated before a stop() may still be).
C27_OnePingOutstandingPerRun ==
    /\ PingKeepsSchedule
    /\ [](intervalId # 0 =>
            Cardinality({i \in OutstandingPings : i >= intervalId}) <= 1)

\* C27 witness: the first ping ran into its 5 s timer and returned, the
\* service is still running and the tick at 4 minutes has initiated a ping
C27_Witness ==
    /\ intervalId = 1
    /\ ops[1].name = "keepAlive.ping"
    /\ ops[1].phase = "done"
    /\ ops[1].via = "timeout"
    /\ ops[1].outcome = "returned"
    /\ ops[2].name = "keepAlive.ping"
    /\ ops[2].phase = "net"
    /\ ops[2].deadline = 240000 + 5000

(* ===================== upstream failures and AI calls ================= *)
\* C18: with the service configured, an operation to which the backend
\* answers with a failure ends by raising that error, unchanged, to its
\* caller, for every operation of authService, dataService and aiService.
C18_UpstreamErrorReraised ==
    \A i \in OpIds :
        (configured /\ ops[i].via = "err") =>
            /\ ops[i].outcome = "threw"
            /\ ops[i].value = "upstream-error"

\* C19: every AI call (analyzeSymptoms, analyzeSentiment, escalateEmergency)
\* that awaits its response is raced against a 10 s timer, so that it ends
\* with a timeout error when the response does not arrive.
C19_AiCallsTimed ==
    \A i \in OpIds :
        (configured /\ ops[i].name \in AiOps /\ ops[i].phase = "net") =>
            /\ ops[i].deadline > 0
            /\ ops[i].deadline <= now + 10000

====
